---- MODULE Spec2Model ----
(***************************************************************************)
(* Weather pipeline (yololantern/weather-pipeline): acquisition of one     *)
(* location's weather and its normalisation into the record handed         *)
(* downstream.                                                             *)
(*                                                                         *)
(*   getCoordinates -> getWeather -> (getNWSWeather: points, forecast,     *)
(*   stations, observation, aggregation of the 12-hour periods into daily  *)
(*   buckets) -> GetLocationWeather's forecast processing.                 *)
(*                                                                         *)
(* A calendar date is a day ordinal; its date key is the fixed-width,      *)
(* zero-padded digit string that Format("2006-01-02") produces, modelled   *)
(* as a sequence of digits and compared as sort.Strings compares strings.  *)
(***************************************************************************)
EXTENDS Integers, Sequences, FiniteSets, TLC

VARIABLES
    apiKey,        \* config.APIKey: "" selects the National Weather Service path
    pc,            \* position in GetLocationWeather / getWeather / getNWSWeather
    requests,      \* HTTP requests issued so far, in order, with their outcome
    forecastData,  \* forecastData.Properties.Periods (decoded forecast response)
    stationsData,  \* stationsData.Features (decoded station list)
    pointsData,    \* pointsData.Properties (decoded points response)
    idx,           \* index of the next period of the aggregation loop
    dayMap,        \* dayMap: date key -> bucket
    today,         \* time.Now().Format("2006-01-02"), once read
    Daily,         \* weather.Daily
    retErr,        \* the error returned to ProcessLocations ("" for nil)
    ForecastDays,  \* weatherData.ForecastDays
    Forecast,      \* weatherData.Forecast
    rawURL,        \* validateURL: the URL under validation
    verdict,       \* validateURL: "pending", "nil" or the error returned
    zipCodes,      \* config.ZipCodes
    outputFormat,  \* config.OutputFormat
    isMetric,      \* config.IsMetric
    kafkaBroker,   \* config.KafkaBroker
    interval,      \* config.Interval, in seconds
    openAIKey,     \* os.Getenv("OPENAI_API_KEY")
    inputs,        \* which provider responses and configurations a run draws
    zip,           \* GetLocationWeather: the zip parameter
    coords,        \* lat, lon, city as returned by getCoordinates
    obsData,       \* obsData.Properties (decoded latest observation)
    current,       \* weather.Current
    weatherData,   \* the WeatherData record GetLocationWeather returns
    mainpc,        \* position in main / ProcessLocations
    cfgErr,        \* the error ValidateConfig returned to main
    zi,            \* ProcessLocations: index of the ZIP code of the iteration
    weatherDataList, \* ProcessLocations: weatherDataList
    acquired,      \* per ZIP code handled in this run: did GetLocationWeather
                   \* return a nil error
    output,        \* the LocationIDs of the records output by this run, in order
    ticks,         \* ticks of the ticker received so far
    tickerC,       \* ticker.C: the ticks waiting in the channel (it holds one)
    zipOK          \* isValidZip: "pending", or "true" / "false" as returned

cfgVars == <<zipCodes, outputFormat, isMetric, kafkaBroker, interval,
             openAIKey, inputs>>

localVars == <<zip, coords, obsData, current, weatherData>>

mainVars == <<mainpc, cfgErr, zi, weatherDataList, acquired, output, ticks,
              tickerC>>

vars == <<apiKey, pc, requests, forecastData, stationsData, pointsData,
          idx, dayMap, today,
          Daily, retErr, ForecastDays, Forecast, rawURL, verdict, cfgVars,
          localVars, mainVars, zipOK>>

fetchVars == <<apiKey, pc, requests, forecastData, stationsData, pointsData,
               idx, dayMap,
               today, Daily, retErr, ForecastDays, Forecast, cfgVars,
               localVars, mainVars, zipOK>>

urlVars == <<rawURL, verdict>>

----------------------------------------------------------------------------
(* Bounds of the model and the values inputs are drawn from.               *)

MaxPeriods == 3        \* longest forecast whose periods are drawn freely
MaxWeekPeriods == 16   \* longest regular day/night forecast
MaxRawDays == 8        \* most daily entries of a onecall response

Days == {9, 10, 11}    \* calendar dates of freely drawn periods
Temps == {55, 70, 72}  \* period temperatures

Min(a, b) == IF a < b THEN a ELSE b

----------------------------------------------------------------------------
(* Dates, date keys and their ordering.                                    *)

\* time.Parse(time.RFC3339, s): the zero time and an error for a malformed s.
TimeParse(s) ==
    IF s.wellFormed THEN [t |-> s.day, err |-> FALSE]
    ELSE [t |-> 0, err |-> TRUE]

\* t.Format("2006-01-02"): zero-padded, fixed width.
Format(t) == <<t \div 10, t % 10>>

\* a < b on strings, as sort.Strings orders them.
RECURSIVE StringLess(_, _)
StringLess(a, b) ==
    IF b = <<>> THEN FALSE
    ELSE IF a = <<>> THEN TRUE
    ELSE IF Head(a) # Head(b) THEN Head(a) < Head(b)
    ELSE StringLess(Tail(a), Tail(b))

\* sort.Strings on the keys of a map.
RECURSIVE SortStrings(_)
SortStrings(S) ==
    IF S = {} THEN <<>>
    ELSE LET m == CHOOSE x \in S : \A y \in S \ {x} : StringLess(x, y)
         IN <<m>> \o SortStrings(S \ {m})

----------------------------------------------------------------------------
(* getNWSWeather: aggregation of the forecast periods into daily buckets.  *)

\* The bucket a date's first period creates.
SeedDay(startTime, period) ==
    [date        |-> startTime,
     minTemp     |-> period.Temperature,
     maxTemp     |-> period.Temperature,
     description |-> period.ShortForecast]

\* The daytime branch: raise the max and adopt the period's text.
RaiseMax(day, period) ==
    IF period.IsDaytime /\ period.Temperature > day.maxTemp
    THEN [day EXCEPT !.maxTemp = period.Temperature,
                     !.description = period.ShortForecast]
    ELSE day

\* The nighttime branch: lower the min.
LowerMin(day, period) ==
    IF ~period.IsDaytime /\ period.Temperature < day.minTemp
    THEN [day EXCEPT !.minTemp = period.Temperature]
    ELSE day

\* A nighttime branch comparing the wrong way round.
UpdateDayNightRaises(day, period) ==
    LET d1 == RaiseMax(day, period)
    IN IF ~period.IsDaytime /\ period.Temperature > d1.minTemp
       THEN [d1 EXCEPT !.minTemp = period.Temperature]
       ELSE d1

\* A daytime branch that ignores the day/night flag.
UpdateDayAnyPeriodRaises(day, period) ==
    LET d1 == IF period.Temperature > day.maxTemp
              THEN [day EXCEPT !.maxTemp = period.Temperature,
                               !.description = period.ShortForecast]
              ELSE day
    IN LowerMin(d1, period)

\* A daytime branch that overwrites the max instead of comparing.
UpdateDayLastDaytimeWins(day, period) ==
    LET d1 == IF period.IsDaytime
              THEN [day EXCEPT !.maxTemp = period.Temperature,
                               !.description = period.ShortForecast]
              ELSE day
    IN LowerMin(d1, period)

\* A nighttime branch that also takes the text of the period.
UpdateDayNightTakesText(day, period) ==
    LET d1 == RaiseMax(day, period)
    IN IF ~period.IsDaytime /\ period.Temperature < d1.minTemp
       THEN [d1 EXCEPT !.minTemp = period.Temperature,
                       !.description = period.ShortForecast]
       ELSE d1

\* A daytime branch that replaces the text on a tie as well.
UpdateDayTieReplaces(day, period) ==
    LET d1 == IF period.IsDaytime /\ period.Temperature >= day.maxTemp
              THEN [day EXCEPT !.maxTemp = period.Temperature,
                               !.description = period.ShortForecast]
              ELSE day
    IN LowerMin(d1, period)

\* The else branch of the loop body: a date that already has a bucket.
UpdateDay(day, period) == LowerMin(RaiseMax(day, period), period)

\* A loop body without the `continue` on a parse error: the zero time is used.
PeriodStepNoSkip(dm, period) ==
    LET startTime == TimeParse(period.StartTime).t
        dateKey == Format(startTime)
        day == IF dateKey \notin DOMAIN dm
               THEN SeedDay(startTime, period)
               ELSE UpdateDay(dm[dateKey], period)
    IN [k \in DOMAIN dm \cup {dateKey} |-> IF k = dateKey THEN day ELSE dm[k]]

\* One iteration of the loop over the periods.
PeriodStep(dm, period) ==
    LET parsed == TimeParse(period.StartTime)
        startTime == parsed.t
        dateKey == Format(startTime)
        day == IF dateKey \notin DOMAIN dm
               THEN SeedDay(startTime, period)
               ELSE UpdateDay(dm[dateKey], period)
    IN IF parsed.err THEN dm
       ELSE [k \in DOMAIN dm \cup {dateKey} |->
                IF k = dateKey THEN day ELSE dm[k]]

\* The entry of weather.Daily built from a bucket: its Weather list holds the
\* one description of the bucket.
DailyEntry(dayData) ==
    [Dt      |-> dayData.date,
     Min     |-> dayData.minTemp,
     Max     |-> dayData.maxTemp,
     Weather |-> <<dayData.description>>]

\* The entries appended by the loop over the sorted days.
RECURSIVE ForecastDayEntries(_, _, _)
ForecastDayEntries(dm, days, now) ==
    IF days = <<>> THEN <<>>
    ELSE IF Head(days) = now THEN ForecastDayEntries(dm, Tail(days), now)
    ELSE <<DailyEntry(dm[Head(days)])>> \o ForecastDayEntries(dm, Tail(days), now)

\* The loop over the sorted days without the skip of today.
RECURSIVE AllDayEntries(_, _)
AllDayEntries(dm, days) ==
    IF days = <<>> THEN <<>>
    ELSE <<DailyEntry(dm[Head(days)])>> \o AllDayEntries(dm, Tail(days))

\* weather.Daily when today is appended a second time by the sorted pass.
DailyOfNoSkip(dm, now) ==
    (IF now \in DOMAIN dm THEN <<DailyEntry(dm[now])>> ELSE <<>>)
        \o AllDayEntries(dm, SortStrings(DOMAIN dm))

\* weather.Daily: today first, then the other dates in sorted order.
DailyOf(dm, now) ==
    (IF now \in DOMAIN dm THEN <<DailyEntry(dm[now])>> ELSE <<>>)
        \o ForecastDayEntries(dm, SortStrings(DOMAIN dm), now)

----------------------------------------------------------------------------
(* validateURL.  Strings are sequences of characters.                      *)

SchemeHTTPS == <<"h", "t", "t", "p", "s">>
HostOpenWeatherMap == <<"o", "p", "e", "n", "w", "e", "a", "t", "h", "e", "r", "m", "a", "p", ".", "o", "r", "g">>
HostNWS == <<"a", "p", "i", ".", "w", "e", "a", "t", "h", "e", "r", ".", "g", "o", "v">>

LowerLetters ==
    <<"a", "b", "c", "d", "e", "f", "g", "h", "i", "j", "k", "l", "m",
      "n", "o", "p", "q", "r", "s", "t", "u", "v", "w", "x", "y", "z">>

UpperLetters ==
    <<"A", "B", "C", "D", "E", "F", "G", "H", "I", "J", "K", "L", "M",
      "N", "O", "P", "Q", "R", "S", "T", "U", "V", "W", "X", "Y", "Z">>

IsLetter(c) ==
    \E i \in 1..Len(LowerLetters) : c = LowerLetters[i] \/ c = UpperLetters[i]

\* strings.ToLower on one ASCII character.
LowerChar(c) ==
    IF \E i \in 1..Len(UpperLetters) : c = UpperLetters[i]
    THEN LowerLetters[CHOOSE i \in 1..Len(UpperLetters) : c = UpperLetters[i]]
    ELSE c

ToLower(str) == [i \in 1..Len(str) |-> LowerChar(str[i])]

\* strings.HasSuffix.
HasSuffix(str, suffix) ==
    /\ Len(str) >= Len(suffix)
    /\ SubSeq(str, Len(str) - Len(suffix) + 1, Len(str)) = suffix

Digits == {"0", "1", "2", "3", "4", "5", "6", "7", "8", "9"}

HexDigits ==
    Digits \cup {"a", "b", "c", "d", "e", "f", "A", "B", "C", "D", "E", "F"}

\* ASCII control characters, named by their code points.
ControlChars == {"U+0001", "U+000A", "U+007F"}

\* The characters of the API keys and station identifiers of the model.
Runes(str) ==
    CASE str = "" -> <<>>
      [] str = "key" -> <<"k", "e", "y">>
      [] str = "key\n" -> <<"k", "e", "y", "U+000A">>
      [] str = "k#%" -> <<"k", "#", "%">>
      [] str = "k#\n" -> <<"k", "#", "U+000A">>
      [] str = "KNYC" -> <<"K", "N", "Y", "C">>
      [] str = "KJFK" -> <<"K", "J", "F", "K">>
      [] str = "K%ZZ" -> <<"K", "%", "Z", "Z">>

\* A "%" that is not followed by two hexadecimal digits.
BadEscape(str) ==
    \E i \in 1..Len(str) :
        /\ str[i] = "%"
        /\ \/ i + 2 > Len(str)
           \/ str[i + 1] \notin HexDigits
           \/ str[i + 2] \notin HexDigits

\* The part of a string before its first "#", and the part after it.
BeforeHash(str) ==
    IF \E i \in 1..Len(str) : str[i] = "#"
    THEN SubSeq(str, 1,
                (CHOOSE i \in 1..Len(str) :
                    str[i] = "#" /\ \A j \in 1..(i - 1) : str[j] # "#") - 1)
    ELSE str

AfterHash(str) == SubSeq(str, Len(BeforeHash(str)) + 2, Len(str))

\* A URL string, cut at its delimiters: scheme://host[:port]path?query, or
\* //host[:port]path?query when scheme is empty; "?" is written only before a
\* query that is not empty.  scheme, host and port hold none of "/", "?", "#",
\* "@", ":", "[", "]"; path is empty or starts with "/" and holds no "?".  The
\* fixed text of a path or query is written as one element of the sequence.
RawURL(scheme, host, port, path, query) ==
    [scheme |-> scheme, host |-> host, port |-> port, path |-> path,
     query |-> query]

\* getScheme: letters, and after the first character digits, "+", "-", ".".
SchemeOK(scheme) ==
    \A i \in 1..Len(scheme) :
        \/ IsLetter(scheme[i])
        \/ i > 1 /\ scheme[i] \in Digits \cup {"+", "-", "."}

\* The ASCII characters shouldEscape wants escaped in a host; a host may not
\* hold them.  The grave accent is written by its code point.
HostDenied ==
    {" ", "#", "/", "?", "@", "\\", "^", "U+0060", "{", "|", "}"}
        \cup ControlChars

\* unescape in host mode: besides a malformed escape, an escape of an ASCII
\* byte other than %25 is an error.
BadHostEscape(host) ==
    \/ BadEscape(host)
    \/ \E i \in 1..(Len(host) - 2) :
          /\ host[i] = "%"
          /\ host[i + 1] \in {"0", "1", "2", "3", "4", "5", "6", "7"}
          /\ <<host[i + 1], host[i + 2]>> # <<"2", "5">>

UpperHex(c) ==
    CASE c = "a" -> "A" [] c = "b" -> "B" [] c = "c" -> "C"
      [] c = "d" -> "D" [] c = "e" -> "E" [] c = "f" -> "F"
      [] OTHER -> c

\* The byte an escape of a host stands for: "%" for %25, else a byte above
\* 0x7F, named by its value.
DecodeByte(high, low) ==
    IF <<high, low>> = <<"2", "5">> THEN "%"
    ELSE "0x" \o UpperHex(high) \o UpperHex(low)

\* unescape of a host whose escapes are well formed.
RECURSIVE UnescapeHost(_)
UnescapeHost(host) ==
    IF host = <<>> THEN <<>>
    ELSE IF Head(host) = "%" /\ Len(host) >= 3
    THEN <<DecodeByte(host[2], host[3])>>
             \o UnescapeHost(SubSeq(host, 4, Len(host)))
    ELSE <<Head(host)>> \o UnescapeHost(Tail(host))

HasControlChar(str) == \E i \in 1..Len(str) : str[i] \in ControlChars

\* url.Parse.  The string is cut at its first "#"; what precedes it may hold
\* no control character.  A scheme that getScheme does not accept leaves a
\* colon in the first path segment, which is an error; the scheme is
\* lower-cased.  A port that is not a number, a character a host may not
\* hold and a bad escape in the host, in the path or in the fragment are
\* errors; the query is kept as it is.  Host is the unescaped host with its
\* port.  After an error there is no URL.
URLParse(raw) ==
    LET hashInPath == BeforeHash(raw.path) # raw.path
        query == IF hashInPath THEN <<>> ELSE BeforeHash(raw.query)
        err ==
            \/ \E part \in {raw.scheme, raw.host, raw.port,
                             BeforeHash(raw.path), query} :
                  HasControlChar(part)
            \/ raw.scheme # <<>> /\ ~SchemeOK(raw.scheme)
            \/ \E i \in 1..Len(raw.port) : raw.port[i] \notin Digits
            \/ \E i \in 1..Len(raw.host) : raw.host[i] \in HostDenied
            \/ BadHostEscape(raw.host)
            \/ BadEscape(BeforeHash(raw.path))
            \/ BadEscape(AfterHash(raw.path))
            \/ hashInPath /\ BadEscape(raw.query)
            \/ ~hashInPath /\ BadEscape(AfterHash(raw.query))
    IN [err    |-> err,
        Scheme |-> IF err THEN <<>> ELSE ToLower(raw.scheme),
        Host   |-> IF err THEN <<>>
                   ELSE IF raw.port = <<>> THEN UnescapeHost(raw.host)
                   ELSE UnescapeHost(raw.host) \o <<":">> \o raw.port]

\* A host check that accepts any host.
HostAllowedAny(host) == TRUE

\* The loop over allowedHosts.
HostAllowed(host) ==
    \E allowed \in {HostOpenWeatherMap, HostNWS} : HasSuffix(host, allowed)

\* validateURL: "nil" or the error returned.
validateURL(raw) ==
    LET parsedURL == URLParse(raw)
    IN IF parsedURL.err THEN "invalid URL"
       ELSE IF parsedURL.Scheme # SchemeHTTPS THEN "URL must use HTTPS"
       ELSE IF ~HostAllowed(parsedURL.Host) THEN "URL host not allowed"
       ELSE "nil"

\* pointsURL: nwsPointsEndpoint with the coordinates appended to its path
\* (their digits, signs and points are written as one element).
PointsURL ==
    RawURL(SchemeHTTPS, HostNWS, <<>>, <<"/points/", "lat,lon">>, <<>>)

\* getCoordinates, urlStr: geoEndpoint with the ZIP code and the key.
GeocodeURL(z, key) ==
    RawURL(SchemeHTTPS, <<"a", "p", "i", ".">> \o HostOpenWeatherMap, <<>>,
           <<"/geo/1.0/zip">>,
           <<"zip=">> \o z \o <<",US&appid=">> \o Runes(key))

\* getWeather, urlStr: weatherEndpoint with the coordinates (their digits,
\* signs and points are written as one element), the units and the key.
OneCallURL(units, key) ==
    RawURL(SchemeHTTPS, <<"a", "p", "i", ".">> \o HostOpenWeatherMap, <<>>,
           <<"/data/3.0/onecall">>,
           <<"lat=", "lat", "&lon=", "lon",
             "&exclude=minutely,hourly,alerts&units=", units, "&appid=">>
               \o Runes(key))

\* observationURL: the station identifier inside the path.
ObservationURL(stationID) ==
    RawURL(SchemeHTTPS, HostNWS, <<>>,
           <<"/stations/">> \o Runes(stationID)
               \o <<"/observations/latest">>,
           <<>>)

\* The URLs a points response names, and one url.Parse rejects.
ForecastURL ==
    RawURL(SchemeHTTPS, HostNWS, <<>>, <<"/gridpoints/OKX/33,35/forecast">>,
           <<>>)
StationsURL ==
    RawURL(SchemeHTTPS, HostNWS, <<>>, <<"/gridpoints/OKX/33,35/stations">>,
           <<>>)
UnparsableURL ==
    RawURL(SchemeHTTPS, HostNWS, <<>>, <<"/grid", "U+0001">>, <<>>)

\* pointsData.Properties.
Points(forecast, observationStations) ==
    [Forecast |-> forecast, ObservationStations |-> observationStations]

NoPoints ==
    Points(RawURL(<<>>, <<>>, <<>>, <<>>, <<>>),
           RawURL(<<>>, <<>>, <<>>, <<>>, <<>>))

PointsResponses ==
    {Points(f, s) : f \in {ForecastURL, UnparsableURL},
                    s \in {StationsURL, UnparsableURL}}

\* The URLs validateURL is applied to.
Schemes ==
    {SchemeHTTPS, <<"H", "T", "T", "P", "S">>, <<"h", "t", "t", "p">>,
     <<"f", "t", "p">>, <<"1", "h">>, <<>>}
HostPrefixes ==
    {<<>>, <<"a", "p", "i", ".">>, <<"e", "v", "i", "l">>, <<"x", "-">>,
     <<"a", "%">>, <<"a", " ">>, <<"%", "e", "9", ".">>}
HostBases ==
    {HostOpenWeatherMap, HostNWS,
     <<"w", "e", "a", "t", "h", "e", "r", ".", "g", "o", "v">>,
     <<"e", "v", "i", "l", ".", "c", "o", "m">>,
     HostNWS \o <<".", "e", "v", "i", "l", ".", "c", "o", "m">>}
Ports == {<<>>, <<"4", "4", "3">>, <<"x">>}
Paths ==
    {<<"/points/">>, <<"/p", "U+000A">>, <<"/p", "#", "U+000A">>,
     <<"/p", "#", "%">>}

RawURLs ==
    {RawURL(sc, pre \o base, po, pa, <<>>) :
        sc \in Schemes, pre \in HostPrefixes, base \in HostBases, po \in Ports,
        pa \in Paths}

----------------------------------------------------------------------------
(* Responses of the providers.                                             *)

\* How an HTTP call ends: a 200 with a decodable body, a transport error, a
\* status other than 200, or a body that does not decode.
Outcomes == {"ok", "transport", "status", "decode"}

WellFormed(d) == [wellFormed |-> TRUE, day |-> d]
Malformed == [wellFormed |-> FALSE, day |-> 0]

\* The periods of a forecast, without their text.
PeriodKinds ==
    {[StartTime |-> WellFormed(d), Temperature |-> t, IsDaytime |-> b] :
        d \in Days, t \in Temps, b \in BOOLEAN}
    \cup {[StartTime |-> Malformed, Temperature |-> 99, IsDaytime |-> TRUE]}

\* Every period carries its own text: the i-th period's shortForecast is i.
WithText(ps) ==
    [i \in 1..Len(ps) |->
        [StartTime     |-> ps[i].StartTime,
         Temperature   |-> ps[i].Temperature,
         IsDaytime     |-> ps[i].IsDaytime,
         ShortForecast |-> i]]

\* Forecasts of at most MaxPeriods periods drawn freely.
FreeForecasts ==
    {WithText(ps) : ps \in UNION {[1..n -> PeriodKinds] : n \in 0..MaxPeriods}}

\* A regular forecast of n 12-hour periods from date 9 on: a day period (70
\* degrees) and a night period (55 degrees) per date, starting with either.
WeekForecast(n, firstIsDay) ==
    [i \in 1..n |->
        LET slot == (i - 1) + (IF firstIsDay THEN 0 ELSE 1)
        IN [StartTime     |-> WellFormed(9 + (slot \div 2)),
            Temperature   |-> IF slot % 2 = 0 THEN 70 ELSE 55,
            IsDaytime     |-> slot % 2 = 0,
            ShortForecast |-> i]]

WeekForecasts ==
    {WeekForecast(n, b) : n \in 0..MaxWeekPeriods, b \in BOOLEAN}

ForecastResponses == FreeForecasts \cup WeekForecasts

\* Station lists: stationIdentifier of each feature.
StationResponses == {<<>>, <<"KNYC", "KJFK">>, <<"K%ZZ">>}

\* The local date the program may run on: a date of the periods, or the day
\* before all of them.
Todays == {Format(d) : d \in Days \cup {8}}

\* The daily entries of a decoded onecall response: n days from date 9 on,
\* each with one weather description but the entry at position emptyAt, whose
\* "weather" list is empty (no such entry when emptyAt is 0).
OneCallDaily(n, emptyAt) ==
    [i \in 1..n |->
        [Dt |-> 8 + i, Min |-> 55, Max |-> 70,
         Weather |-> IF i = emptyAt THEN <<>> ELSE <<i>>]]

NoError == [call |-> "", kind |-> "nil"]
NoDays == [k \in {} |-> 0]

----------------------------------------------------------------------------
(* ZIP codes and the configuration.  A ZIP code string is the sequence of  *)
(* its runes, each written as a one-character string ("U+00E9" stands for  *)
(* the two-byte rune e-acute).                                             *)

MaxZipLen == 6   \* longest string isValidZip is applied to, in runes
MaxZips == 2     \* longest config.ZipCodes
MaxTicks == 1    \* ticks of the ticker a run of main receives

\* The Unicode code point of a rune.
CodePoint(r) ==
    CASE r = "/" -> 47
      [] r = "0" -> 48 [] r = "1" -> 49 [] r = "2" -> 50 [] r = "3" -> 51
      [] r = "4" -> 52 [] r = "5" -> 53 [] r = "6" -> 54 [] r = "7" -> 55
      [] r = "8" -> 56 [] r = "9" -> 57
      [] r = ":" -> 58
      [] r = "a" -> 97
      [] r = "U+00E9" -> 233

\* The bytes of a rune in UTF-8 (no rune here is beyond U+07FF).
UTF8Len(r) == IF CodePoint(r) < 128 THEN 1 ELSE 2

\* len(s) of a Go string: its length in bytes.
RECURSIVE ByteLen(_)
ByteLen(s) == IF s = <<>> THEN 0 ELSE UTF8Len(Head(s)) + ByteLen(Tail(s))

\* isValidZip without the lower bound of the digit range.
isValidZipNoLowerBound(z) ==
    IF ByteLen(z) # 5 THEN FALSE
    ELSE \A i \in 1..Len(z) : ~(CodePoint(z[i]) > CodePoint("9"))

\* isValidZip: five bytes, and no rune below '0' or above '9'.
isValidZip(z) ==
    IF ByteLen(z) # 5 THEN FALSE
    ELSE \A i \in 1..Len(z) :
            ~(CodePoint(z[i]) < CodePoint("0") \/ CodePoint(z[i]) > CodePoint("9"))

FormatJSON == "json"
FormatCSV == "csv"
FormatText == "text"
FormatKafka == "kafka"

\* ValidateConfig whose loop looks at the first ZIP code only.
ValidateConfigFirstZipOnly(key, zips, format, broker) ==
    IF key = "" THEN "OpenWeatherMap API key is required"
    ELSE IF Len(zips) = 0 THEN "at least one ZIP code is required"
    ELSE IF ~isValidZip(zips[1]) THEN "invalid ZIP code format"
    ELSE IF format \notin {FormatJSON, FormatCSV, FormatText, FormatKafka}
    THEN "invalid output format"
    ELSE IF format = FormatKafka /\ broker = ""
    THEN "kafka broker is required"
    ELSE "nil"

\* ValidateConfig: the error it returns, "nil" for none.
ValidateConfig(key, zips, format, broker) ==
    IF key = "" THEN "OpenWeatherMap API key is required"
    ELSE IF Len(zips) = 0 THEN "at least one ZIP code is required"
    ELSE IF \E i \in 1..Len(zips) : ~isValidZip(zips[i])
    THEN "invalid ZIP code format"
    ELSE IF format \notin {FormatJSON, FormatCSV, FormatText, FormatKafka}
    THEN "invalid output format"
    ELSE IF format = FormatKafka /\ broker = ""
    THEN "kafka broker is required"
    ELSE "nil"

\* The runes isValidZip is tried on: the digits 0 and 9, their neighbours in
\* the code table, a letter and a two-byte rune.
ZipRunes == {"/", "0", "9", ":", "a", "U+00E9"}

ZipStrings == UNION {[1..n -> ZipRunes] : n \in 0..MaxZipLen}

\* ZIP codes GetLocationWeather is called with: two of the fixed table, one well-formed ZIP
\* code outside it, one too short and one with a letter.
ZipSamples ==
    {<<"9", "0", "2", "1", "0">>, <<"1", "0", "0", "0", "1">>,
     <<"1", "2", "3", "4", "5">>, <<"9", "0", "2", "1">>,
     <<"1", "0", "0", "0", "a">>}

\* ZIP codes of the configurations main is run on.
MainZipSamples ==
    {<<"9", "0", "2", "1", "0">>, <<"1", "2", "3", "4", "5">>,
     <<"9", "0", "2", "1">>, <<"1", "0", "0", "0", "a">>}

ZipLists == UNION {[1..n -> MainZipSamples] : n \in 0..MaxZips}

\* -format: the four formats and one that is none of them.
Formats == {FormatJSON, FormatCSV, FormatText, FormatKafka, "xml"}

----------------------------------------------------------------------------
(* Coordinates.  Latitude and longitude are in ten-thousandths of a        *)
(* degree.                                                                 *)

Coordinates(lat, lon, city) == [lat |-> lat, lon |-> lon, city |-> city]

\* The zero values getCoordinates returns with an error.
NoCoordinates == Coordinates(0, 0, "")

\* zipCoords of getNWSCoordinates.
zipCoords ==
    (<<"9", "0", "2", "1", "0">> :> Coordinates(340901, -1184065, "Beverly Hills"))
    @@ (<<"1", "0", "0", "0", "1">> :> Coordinates(407501, -739996, "New York"))
    @@ (<<"6", "0", "6", "0", "1">> :> Coordinates(418841, -876277, "Chicago"))
    @@ (<<"0", "2", "1", "0", "8">> :> Coordinates(423581, -710636, "Boston"))
    @@ (<<"9", "4", "1", "0", "2">> :> Coordinates(377794, -1224184, "San Francisco"))
    @@ (<<"9", "8", "1", "0", "1">> :> Coordinates(476097, -1223331, "Seattle"))
    @@ (<<"3", "3", "1", "0", "1">> :> Coordinates(257743, -801937, "Miami"))
    @@ (<<"7", "5", "2", "0", "1">> :> Coordinates(327795, -968022, "Dallas"))
    @@ (<<"7", "7", "0", "0", "1">> :> Coordinates(297604, -953698, "Houston"))
    @@ (<<"8", "5", "0", "0", "1">> :> Coordinates(334484, -1120740, "Phoenix"))

\* getNWSCoordinates that fails for a ZIP code outside the table.
getNWSCoordinatesUnknownFails(z) ==
    IF z \in DOMAIN zipCoords
    THEN [coords |-> zipCoords[z], err |-> "nil"]
    ELSE [coords |-> NoCoordinates, err |-> "unknown ZIP code"]

\* getNWSCoordinates: the entry of the table, or the default location.
getNWSCoordinates(z) ==
    IF z \in DOMAIN zipCoords
    THEN [coords |-> zipCoords[z], err |-> "nil"]
    ELSE [coords |-> Coordinates(407128, -740060, "New York"), err |-> "nil"]

\* geo.Lat, geo.Lon, geo.Name of a decoded geocoding response.
GeoResponse == Coordinates(340736, -1184004, "Geocoded")

----------------------------------------------------------------------------
(* Current conditions.  Temperatures are fixed-point numbers: a Celsius     *)
(* value of an observation is written in tenths of a degree (21.7 is 217), *)
(* a value of weather.Current and of the record in hundredths of a degree  *)
(* (71.06 is 7106).  On these the conversion is the exact value of the     *)
(* float64 expression for every input: no division rounds.                 *)

\* The conversion with the factor inverted.
celsiusToFahrenheitInverted(celsius) == ((celsius * 10) * 5) \div 9 + 32 * 100

\* celsiusToFahrenheit: celsius*9/5 + 32, from tenths to hundredths.
celsiusToFahrenheit(celsius) == ((celsius * 10) * 9) \div 5 + 32 * 100

\* units of getWeather: the query parameter of the onecall request.
Units == IF FALSE THEN "metric" ELSE "imperial"

Observation(temperature, heatIndex) ==
    [Temperature |-> temperature, HeatIndex |-> heatIndex,
     TextDescription |-> "Cloudy"]

NoObservation == Observation(0, 0)

\* Celsius values of observations, in tenths: -40, 0, 1, 21.7, 37 and 100.
ObservedTemperatures == {-400, 0, 10, 217, 370, 1000}

\* weather.Current; units names the unit system its values are in.
CurrentConditions(temp, feelsLike, weather, units) ==
    [Temp |-> temp, FeelsLike |-> feelsLike, Weather |-> weather,
     units |-> units]

NoCurrent == CurrentConditions(0, 0, <<>>, "")

\* The conversion that never looks at the heat index.
ConvertObservationIgnoresHeatIndex(obs) ==
    CurrentConditions(celsiusToFahrenheit(obs.Temperature),
                      celsiusToFahrenheit(obs.Temperature),
                      <<obs.TextDescription>>, "imperial")

\* getNWSWeather, "Current conditions": the observation in imperial units.
ConvertObservation(obs) ==
    LET feelsLike == IF obs.HeatIndex # 0 THEN obs.HeatIndex
                     ELSE obs.Temperature
    IN CurrentConditions(celsiusToFahrenheit(obs.Temperature),
                         celsiusToFahrenheit(feelsLike),
                         <<obs.TextDescription>>, "imperial")

\* The record without its forecast.
Record(id, name, temperature, feelsLike, metric, condition, summary, units) ==
    [LocationID |-> id, LocationName |-> name, Temperature |-> temperature,
     FeelsLike |-> feelsLike, IsMetric |-> metric, Condition |-> condition,
     Summary |-> summary, units |-> units]

NoRecord == Record(<<>>, "", 0, 0, FALSE, "", "", "")

MissingKeyMessage == "Missing OPENAI_API_KEY environment variable"

\* What client.CreateChatCompletion returns: an error, or a response with its
\* list of choices, which may be empty.
Completion(failed, choices) == [err |-> failed, Choices |-> choices]

Completions ==
    {Completion(TRUE, <<>>), Completion(FALSE, <<>>),
     Completion(FALSE, <<"Sunny and mild.">>)}

\* summarizeForecast: the text it returns, or the panic of resp.Choices[0] on
\* a response without choices.
summarizeForecast(key, resp) ==
    IF key = "" THEN [panics |-> FALSE, text |-> MissingKeyMessage]
    ELSE IF resp.err THEN [panics |-> FALSE, text |-> "OpenAI API error"]
    ELSE IF Len(resp.Choices) = 0 THEN [panics |-> TRUE, text |-> ""]
    ELSE [panics |-> FALSE, text |-> resp.Choices[1]]

----------------------------------------------------------------------------
(* What a run draws its inputs from.  "forecasts" runs draw the forecast   *)
(* freely and fix the rest; "records" runs draw the observation, the       *)
(* current conditions and the configuration of one GetLocationWeather      *)
(* call; "batches" runs draw the configuration main works on.              *)

SampleForecasts == {<<>>, WeekForecast(4, TRUE)}

ForecastsOf(in) ==
    IF in = "forecasts" THEN ForecastResponses ELSE SampleForecasts

DailyCountsOf(in) ==
    IF in = "forecasts" THEN 0..MaxRawDays ELSE {0, 2, MaxRawDays}

\* Where a onecall response has a daily entry without weather descriptions.
EmptyWeatherOf(in) ==
    IF in = "batches" THEN {0, 2} ELSE {0, 1, 2}

ObservationsOf(in) ==
    IF in = "records"
    THEN {Observation(t, h) : t \in ObservedTemperatures, h \in {0, 350}}
    ELSE {Observation(200, 0)}

\* current of a decoded onecall response, in the units of the request.
OneCallCurrentsOf(in) ==
    IF in = "records"
    THEN {CurrentConditions(7200, 7000, w, Units) :
              w \in {<<>>, <<"clear sky">>}}
    ELSE {CurrentConditions(7200, 7000, <<"clear sky">>, Units)}

----------------------------------------------------------------------------
(* GetLocationWeather, getCoordinates, getWeather and getNWSWeather.       *)

Request(call, validated, station, outcome) ==
    [call |-> call, validated |-> validated, station |-> station,
     outcome |-> outcome]

\* The calls of the fallback fetch, in the order of the code.
Chain == <<"points", "forecast", "stations", "observation">>

\* No fetch under way and no URL under validation.
NoFetch ==
    /\ requests = <<>>
    /\ forecastData = <<>>
    /\ stationsData = <<>>
    /\ pointsData = NoPoints
    /\ idx = 1
    /\ dayMap = NoDays
    /\ today = <<>>
    /\ Daily = <<>>
    /\ retErr = NoError
    /\ ForecastDays = 0
    /\ Forecast = <<>>
    /\ rawURL = PointsURL
    /\ verdict = "pending"

\* What is not part of the call under study: no coordinates, observation or
\* record yet, main and ProcessLocations not running, isValidZip not called.
Idle ==
    /\ coords = NoCoordinates
    /\ obsData = NoObservation
    /\ current = NoCurrent
    /\ weatherData = NoRecord
    /\ mainpc = "none"
    /\ cfgErr = "pending"
    /\ zi = 1
    /\ weatherDataList = <<>>
    /\ acquired = <<>>
    /\ output = <<>>
    /\ ticks = 0
    /\ tickerC = 0
    /\ zipOK = "pending"

\* GetLocationWeather is called with a ZIP code of the table, for JSON output.
Init ==
    /\ apiKey \in {"", "key", "key\n", "k#%", "k#\n"}
    /\ pc = "coordinates"
    /\ requests = <<>>
    /\ forecastData = <<>>
    /\ stationsData = <<>>
    /\ pointsData = NoPoints
    /\ idx = 1
    /\ dayMap = NoDays
    /\ today = <<>>
    /\ Daily = <<>>
    /\ retErr = NoError
    /\ ForecastDays = 0
    /\ Forecast = <<>>
    /\ rawURL = PointsURL
    /\ verdict = "pending"
    /\ inputs = "forecasts"
    /\ zipCodes = <<>>
    /\ outputFormat = FormatJSON
    /\ isMetric = FALSE
    /\ kafkaBroker = ""
    /\ interval = 0
    /\ openAIKey = ""
    /\ zip = <<"9", "0", "2", "1", "0">>
    /\ Idle

\* A call whose failure is ignored: the fetch goes on as after a 200.
CallNoAbort(call, validated, station, next) ==
    \E o \in Outcomes :
        /\ requests' = Append(requests, Request(call, validated, station, o))
        /\ pc' = next
        /\ retErr' = NoError

\* One HTTP call: the request is issued, and any outcome but a decodable 200
\* makes the enclosing function return that error.
Call(call, validated, station, next) ==
    \E o \in Outcomes :
        /\ requests' = Append(requests, Request(call, validated, station, o))
        /\ pc' = IF o = "ok" THEN next ELSE "error"
        /\ retErr' = IF o = "ok" THEN NoError ELSE [call |-> call, kind |-> o]

\* The return at a URL that validateURL or http.NewRequest rejects: no
\* request is issued.
Rejected(call, kind) ==
    /\ pc' = "error"
    /\ retErr' = [call |-> call, kind |-> kind]
    /\ UNCHANGED requests

\* getCoordinates: the fixed table without a key; with one, the geocoding URL
\* is validated, then requested.
GetCoordinates ==
    /\ pc = "coordinates"
    /\ IF apiKey = ""
       THEN /\ pc' = IF getNWSCoordinates(zip).err = "nil" THEN "points"
                     ELSE "error"
            /\ coords' = getNWSCoordinates(zip).coords
            /\ retErr' = IF getNWSCoordinates(zip).err = "nil" THEN NoError
                         ELSE [call |-> "coordinates",
                               kind |-> getNWSCoordinates(zip).err]
            /\ UNCHANGED requests
       ELSE IF validateURL(GeocodeURL(zip, apiKey)) # "nil"
       THEN /\ Rejected("geocode", "URL validation failed")
            /\ coords' = NoCoordinates
       ELSE /\ Call("geocode", TRUE, "", "onecall")
            /\ coords' = IF pc' = "onecall" THEN GeoResponse
                         ELSE NoCoordinates
    /\ UNCHANGED <<apiKey, forecastData, stationsData, pointsData, idx, dayMap,
                   today, Daily, ForecastDays, Forecast, urlVars, cfgVars,
                   mainVars, zip, obsData, current, weatherData, zipOK>>

\* getWeather with a key: the onecall URL is validated, then requested, and
\* the response decoded into weather.Daily and weather.Current.
CallOneCall ==
    /\ pc = "onecall"
    /\ IF validateURL(OneCallURL(Units, apiKey)) # "nil"
       THEN /\ Rejected("onecall", "URL validation failed")
            /\ UNCHANGED <<Daily, current>>
       ELSE /\ Call("onecall", TRUE, "", "process")
            /\ \E n \in DailyCountsOf(inputs), e \in EmptyWeatherOf(inputs),
                  c \in OneCallCurrentsOf(inputs) :
                  /\ Daily' = IF pc' = "process" THEN OneCallDaily(n, e)
                              ELSE <<>>
                  /\ current' = IF pc' = "process" THEN c ELSE NoCurrent
    /\ UNCHANGED <<apiKey, forecastData, stationsData, pointsData, idx, dayMap,
                   today, ForecastDays, Forecast, urlVars, cfgVars, mainVars,
                   zip, coords, obsData, weatherData, zipOK>>

\* getNWSWeather, step 1: the points URL is validated, then requested; the
\* response names the forecast URL and the station list URL.
CallPoints ==
    /\ pc = "points"
    /\ verdict' = validateURL(rawURL)
    /\ IF verdict' = "nil"
       THEN /\ Call("points", TRUE, "", "forecast")
            /\ \E points \in PointsResponses :
                  pointsData' = IF pc' = "forecast" THEN points ELSE NoPoints
       ELSE /\ Rejected("points", "URL validation failed")
            /\ UNCHANGED pointsData
    /\ UNCHANGED <<apiKey, forecastData, stationsData, idx, dayMap, today,
                   Daily, ForecastDays, Forecast, rawURL, cfgVars, localVars,
                   mainVars, zipOK>>

\* Step 2: the forecast URL of the points response, requested as it is unless
\* http.NewRequest cannot parse it.
CallForecast ==
    /\ pc = "forecast"
    /\ IF URLParse(pointsData.Forecast).err
       THEN /\ Rejected("forecast", "error creating request")
            /\ UNCHANGED forecastData
       ELSE /\ Call("forecast", FALSE, "", "stations")
            /\ \E periods \in IF pc' = "stations" THEN ForecastsOf(inputs)
                               ELSE {<<>>} :
                  forecastData' = periods
    /\ UNCHANGED <<apiKey, stationsData, pointsData, idx, dayMap, today, Daily,
                   ForecastDays, Forecast, urlVars, cfgVars, localVars,
                   mainVars, zipOK>>

\* Step 3 without the check for an empty list.
CallStationsNoEmptyCheck ==
    /\ pc = "stations"
    /\ IF URLParse(pointsData.ObservationStations).err
       THEN /\ Rejected("stations", "error creating request")
            /\ UNCHANGED stationsData
       ELSE \E o \in Outcomes :
            \E features \in IF o = "ok" THEN StationResponses ELSE {<<>>} :
          /\ requests' = Append(requests, Request("stations", FALSE, "", o))
          /\ stationsData' = IF o = "ok" THEN features ELSE <<>>
          /\ pc' = IF o # "ok" THEN "error" ELSE "observation"
          /\ retErr' = IF o # "ok" THEN [call |-> "stations", kind |-> o]
                       ELSE NoError
    /\ forecastData' = IF pc' = "error" THEN <<>> ELSE forecastData
    /\ UNCHANGED <<apiKey, pointsData, idx, dayMap, today, Daily,
                   ForecastDays, Forecast, urlVars, cfgVars, localVars,
                   mainVars, zipOK>>

\* Step 3: the station list URL of the points response, requested unless
\* http.NewRequest cannot parse it; an empty list is an error.  A return with
\* an error discards the decoded forecast, a local of getNWSWeather.
CallStations ==
    /\ pc = "stations"
    /\ IF URLParse(pointsData.ObservationStations).err
       THEN /\ Rejected("stations", "error creating request")
            /\ UNCHANGED stationsData
       ELSE \E o \in Outcomes :
            \E features \in IF o = "ok" THEN StationResponses ELSE {<<>>} :
          /\ requests' = Append(requests, Request("stations", FALSE, "", o))
          /\ stationsData' = IF o = "ok" THEN features ELSE <<>>
          /\ pc' = IF o # "ok" \/ Len(features) = 0 THEN "error"
                   ELSE "observation"
          /\ retErr' = IF o # "ok" THEN [call |-> "stations", kind |-> o]
                       ELSE IF Len(features) = 0
                       THEN [call |-> "stations",
                             kind |-> "no observation stations found"]
                       ELSE NoError
    /\ forecastData' = IF pc' = "error" THEN <<>> ELSE forecastData
    /\ UNCHANGED <<apiKey, pointsData, idx, dayMap, today, Daily,
                   ForecastDays, Forecast, urlVars, cfgVars, localVars,
                   mainVars, zipOK>>

\* Step 4: the latest observation of the first station, requested unless
\* http.NewRequest cannot parse the URL built from its identifier, and
\* converted into the current conditions.  A return with an error discards
\* the decoded forecast.
CallObservation ==
    /\ pc = "observation"
    /\ IF URLParse(ObservationURL(stationsData[1])).err
       THEN /\ Rejected("observation", "error creating request")
            /\ UNCHANGED <<obsData, current>>
       ELSE /\ Call("observation", FALSE, stationsData[1], "periods")
            /\ \E obs \in ObservationsOf(inputs) :
                  /\ obsData' = IF pc' = "periods" THEN obs ELSE NoObservation
                  /\ current' = IF pc' = "periods" THEN ConvertObservation(obs)
                                ELSE NoCurrent
    /\ forecastData' = IF pc' = "error" THEN <<>> ELSE forecastData
    /\ UNCHANGED <<apiKey, stationsData, pointsData, idx, dayMap,
                   today, Daily, ForecastDays, Forecast, urlVars, cfgVars,
                   mainVars, zip, coords, weatherData, zipOK>>

\* One iteration of the loop over forecastData.Properties.Periods.
ProcessPeriod ==
    /\ pc = "periods"
    /\ idx <= Len(forecastData)
    /\ dayMap' = PeriodStep(dayMap, forecastData[idx])
    /\ idx' = idx + 1
    /\ UNCHANGED <<apiKey, pc, requests, forecastData, stationsData, pointsData,
                   today,
                   Daily, retErr, ForecastDays, Forecast, urlVars, cfgVars,
                   localVars, mainVars, zipOK>>

\* After the loop: the keys are sorted, the local date is read, weather.Daily
\* is built and getNWSWeather returns.
BuildDaily ==
    /\ pc = "periods"
    /\ idx > Len(forecastData)
    /\ \E now \in Todays :
          /\ today' = now
          /\ Daily' = DailyOf(dayMap, now)
    /\ pc' = "process"
    /\ UNCHANGED <<apiKey, requests, forecastData, stationsData, pointsData,
                   idx, dayMap,
                   retErr, ForecastDays, Forecast, urlVars, cfgVars,
                   localVars, mainVars, zipOK>>

\* An entry of weatherData.Forecast; time.Unix keeps the instant of day.Dt.
ForecastEntry(day) ==
    [Date |-> day.Dt, TempMin |-> day.Min, TempMax |-> day.Max,
     Condition |-> day.Weather[1]]

\* The zero value make() fills weatherData.Forecast with (0 is the empty
\* string among the descriptions).
ZeroForecastEntry ==
    [Date |-> 0, TempMin |-> 0, TempMax |-> 0, Condition |-> 0]

\* GetLocationWeather, "Process data into standardized format" and "Process
\* forecast data": the record takes the current conditions and config.IsMetric,
\* ForecastDays is set, at most 7 days are kept and index 0 is left out.
\* make() with a negative length panics, and so does day.Weather[0] on a kept
\* day without descriptions, after the days before it have been copied.  A
\* summary follows for the text format only.
ProcessForecast ==
    /\ pc = "process"
    /\ LET forecastDays == Min(Len(Daily), 7)
           noWeather == {i \in 1..(forecastDays - 1) :
                            Len(Daily[i + 1].Weather) = 0}
           firstNoWeather ==
               CHOOSE i \in noWeather : \A j \in noWeather : i <= j
       IN /\ weatherData' =
                Record(zip, coords.city, current.Temp, current.FeelsLike,
                       isMetric,
                       IF Len(current.Weather) > 0 THEN current.Weather[1]
                       ELSE "",
                       "", current.units)
          /\ ForecastDays' = forecastDays - 1
          /\ IF forecastDays - 1 < 0
             THEN /\ pc' = "panic"
                  /\ UNCHANGED Forecast
             ELSE IF noWeather # {}
             THEN /\ pc' = "panic"
                  /\ Forecast' =
                        [i \in 1..(forecastDays - 1) |->
                            IF i < firstNoWeather
                            THEN ForecastEntry(Daily[i + 1])
                            ELSE ZeroForecastEntry]
             ELSE /\ Forecast' =
                        [i \in 1..(forecastDays - 1) |->
                            ForecastEntry(Daily[i + 1])]
                  /\ pc' = IF outputFormat = FormatText THEN "summary"
                           ELSE "done"
    /\ UNCHANGED <<apiKey, requests, forecastData, stationsData, pointsData,
                   idx, dayMap,
                   today, Daily, retErr, urlVars, cfgVars, mainVars,
                   zip, coords, obsData, current, zipOK>>

\* GetLocationWeather, "Generate summary": buildForecastText reads
\* w.Current.Weather[0], which panics on an empty list; summarizeForecast
\* returns a text or panics on a completion without choices.  The completion
\* call goes to no weather provider and is not among requests.
Summarize ==
    /\ pc = "summary"
    /\ IF Len(current.Weather) = 0
       THEN /\ pc' = "panic"
            /\ UNCHANGED weatherData
       ELSE \E resp \in Completions :
               LET summary == summarizeForecast(openAIKey, resp)
               IN IF summary.panics
                  THEN /\ pc' = "panic"
                       /\ UNCHANGED weatherData
                  ELSE /\ weatherData' =
                             [weatherData EXCEPT !.Summary = summary.text]
                       /\ pc' = "done"
    /\ UNCHANGED <<apiKey, requests, forecastData, stationsData, pointsData,
                   idx, dayMap,
                   today, Daily, retErr, ForecastDays, Forecast, urlVars,
                   cfgVars, mainVars, zip, coords, obsData, current, zipOK>>

Next ==
    \/ GetCoordinates
    \/ CallOneCall
    \/ CallPoints
    \/ CallForecast
    \/ CallStations
    \/ CallObservation
    \/ ProcessPeriod
    \/ BuildDaily
    \/ ProcessForecast

Spec == Init /\ [][Next]_vars

----------------------------------------------------------------------------
(* validateURL applied to each URL of RawURLs.                             *)

InitURL ==
    /\ apiKey = ""
    /\ pc = "validate"
    /\ requests = <<>>
    /\ forecastData = <<>>
    /\ stationsData = <<>>
    /\ pointsData = NoPoints
    /\ idx = 1
    /\ dayMap = NoDays
    /\ today = <<>>
    /\ Daily = <<>>
    /\ retErr = NoError
    /\ ForecastDays = 0
    /\ Forecast = <<>>
    /\ rawURL \in RawURLs
    /\ verdict = "pending"
    /\ inputs = "urls"
    /\ zipCodes = <<>>
    /\ outputFormat = FormatJSON
    /\ isMetric = FALSE
    /\ kafkaBroker = ""
    /\ interval = 0
    /\ openAIKey = ""
    /\ zip = <<>>
    /\ Idle

Validate ==
    /\ pc = "validate"
    /\ verdict = "pending"
    /\ verdict' = validateURL(rawURL)
    /\ UNCHANGED <<fetchVars, rawURL>>

NextURL == Validate

SpecURL == InitURL /\ [][NextURL]_vars

----------------------------------------------------------------------------
(* The aggregation loop as a whole, and reference definitions for the      *)
(* properties below.                                                       *)

\* The loop over the periods, run to its end from the buckets dm.
RECURSIVE Aggregate(_, _)
Aggregate(dm, periods) ==
    IF periods = <<>> THEN dm
    ELSE Aggregate(PeriodStep(dm, Head(periods)), Tail(periods))

OnFallback == apiKey = ""

\* getNWSWeather has returned weather.Daily.
Built == OnFallback /\ pc \in {"process", "summary", "done", "panic"}

\* The periods processed so far.
Processed == SubSeq(forecastData, 1, idx - 1)

HasDate(p) == p.StartTime.wellFormed
DateOf(p) == p.StartTime.day

\* The periods of a sequence that fall on date d, in their order.
PeriodsOn(periods, d) ==
    LET IsOn(p) == HasDate(p) /\ DateOf(p) = d
    IN SelectSeq(periods, IsOn)

\* The calendar dates of the parsable periods of a sequence.
DatesOf(periods) ==
    {DateOf(periods[i]) : i \in {j \in 1..Len(periods) : HasDate(periods[j])}}

SetMax(S) == CHOOSE x \in S : \A y \in S : y <= x
SetMin(S) == CHOOSE x \in S : \A y \in S : x <= y

\* The temperatures of the periods after the first with the given flag.
LaterTemps(ps, daytime) ==
    {ps[i].Temperature : i \in {j \in 2..Len(ps) : ps[j].IsDaytime = daytime}}

Reorder(ps, perm) == [i \in 1..Len(ps) |-> ps[perm[i]]]

\* Every order of a sequence.
Orders(ps) == {Reorder(ps, perm) : perm \in Permutations(1..Len(ps))}

\* The orders of a sequence that leave its first element in place.
OrdersFromFirst(ps) == {qs \in Orders(ps) : ps = <<>> \/ qs[1] = ps[1]}

MinMax(day) == <<day.minTemp, day.maxTemp>>

----------------------------------------------------------------------------
(* C1 to C10.                                                              *)

\* C1: after each period processed, every date's bucket has minTemp <=
\* maxTemp, and so has every entry of the Daily sequence getNWSWeather builds.
C1_MinNeverAboveMax ==
    OnFallback =>
        /\ \A k \in DOMAIN dayMap : dayMap[k].minTemp <= dayMap[k].maxTemp
        /\ \A i \in 1..Len(Daily) : Daily[i].Min <= Daily[i].Max

\* A date whose seed was followed by a warmer nighttime period, and a date
\* widened on both sides, have been aggregated and built into Daily.
C1_Witness ==
    /\ Built
    /\ \E i \in 1..Len(Daily) : Daily[i].Min < Daily[i].Max
    /\ \E d \in DatesOf(forecastData) :
          LET ps == PeriodsOn(forecastData, d)
          IN /\ Len(ps) >= 2
             /\ ~ps[2].IsDaytime
             /\ ps[2].Temperature > ps[1].Temperature

\* C2 as stated: for the periods of one date, every order of them gives the
\* min and max the code computed for that date.
C2_AnyOrderSameMinMax ==
    Built =>
        \A d \in DatesOf(forecastData) :
            \A qs \in Orders(PeriodsOn(forecastData, d)) :
                MinMax(Aggregate(NoDays, qs)[Format(d)])
                    = MinMax(dayMap[Format(d)])

\* C2 amended: every order of a date's periods that keeps the date's first
\* period first gives the min and max the code computed for that date.
C2_SameFirstSameMinMax ==
    Built =>
        \A d \in DatesOf(forecastData) :
            \A qs \in OrdersFromFirst(PeriodsOn(forecastData, d)) :
                MinMax(Aggregate(NoDays, qs)[Format(d)])
                    = MinMax(dayMap[Format(d)])

\* A date with three periods whose later two are daytime periods of different
\* temperatures above the seed: their two orders are compared.
C2_Witness ==
    /\ Built
    /\ \E d \in DatesOf(forecastData) :
          LET ps == PeriodsOn(forecastData, d)
          IN /\ Len(ps) = 3
             /\ ps[2].IsDaytime /\ ps[3].IsDaytime
             /\ ps[1].Temperature < ps[3].Temperature
             /\ ps[3].Temperature < ps[2].Temperature

\* C3: Daily is ascending by calendar date, and today's entry is at index 0
\* whenever the periods contain today's date.
C3_AscendingTodayFirst ==
    Built =>
        /\ \A i, j \in 1..Len(Daily) : i < j => Daily[i].Dt < Daily[j].Dt
        /\ today \in DOMAIN dayMap => Format(Daily[1].Dt) = today

\* C4: the record holds min(D, 7) forecast entries on the fallback path, never
\* more than 7 on either path, and for 8 raw days the 7 days after index 0.
C4_ForecastCount ==
    pc = "done" =>
        /\ OnFallback =>
              Len(Forecast) = Min(Cardinality(DatesOf(forecastData)), 7)
        /\ Len(Forecast) <= 7
        /\ Len(Daily) = 8 =>
              Forecast = [i \in 1..7 |-> ForecastEntry(Daily[i + 1])]

\* C5: no two entries of Daily have the same date key.
C5_OneEntryPerDate ==
    Built =>
        \A i, j \in 1..Len(Daily) :
            i # j => Format(Daily[i].Dt) # Format(Daily[j].Dt)

\* Today's date is among the periods, after an earlier date in sorted order,
\* so the sorted pass meets it and skips it.
C5_Witness ==
    /\ Built
    /\ today \in DOMAIN dayMap
    /\ \E k \in DOMAIN dayMap : StringLess(k, today)
    /\ \E k \in DOMAIN dayMap : StringLess(today, k)

\* C6: a period whose timestamp does not parse is left out of every bucket:
\* the buckets and Daily are those of the sequence without such periods, and
\* no error is returned.
C6_UnparsableSkipped ==
    /\ OnFallback /\ pc = "periods" =>
          dayMap = Aggregate(NoDays, SelectSeq(Processed, HasDate))
    /\ Built =>
          /\ Daily = DailyOf(Aggregate(NoDays, SelectSeq(forecastData, HasDate)),
                             today)
          /\ retErr = NoError

\* An unparsable period between two parsable ones has been processed.
C6_Witness ==
    /\ Built
    /\ Len(forecastData) = 3
    /\ HasDate(forecastData[1])
    /\ ~HasDate(forecastData[2])
    /\ HasDate(forecastData[3])
    /\ Len(Daily) = 2

\* C7: each bucket is seeded by the date's first period; its max is the
\* largest of the seed and the later daytime temperatures, its min the
\* smallest of the seed and the later nighttime temperatures.
C7_BucketIsReference ==
    OnFallback /\ pc \in {"periods", "process", "done", "panic"} =>
        /\ DOMAIN dayMap = {Format(d) : d \in DatesOf(Processed)}
        /\ \A d \in DatesOf(Processed) :
              LET ps == PeriodsOn(Processed, d)
                  seed == ps[1].Temperature
              IN /\ dayMap[Format(d)].maxTemp
                      = SetMax({seed} \cup LaterTemps(ps, TRUE))
                 /\ dayMap[Format(d)].minTemp
                      = SetMin({seed} \cup LaterTemps(ps, FALSE))

\* The example: day 70 then night 55 on one date, day 72 on the next.
C7_Witness ==
    /\ Built
    /\ Len(forecastData) = 3
    /\ DateOf(forecastData[1]) = 9 /\ forecastData[1].IsDaytime
    /\ forecastData[1].Temperature = 70
    /\ DateOf(forecastData[2]) = 9 /\ ~forecastData[2].IsDaytime
    /\ forecastData[2].Temperature = 55
    /\ DateOf(forecastData[3]) = 10 /\ forecastData[3].IsDaytime
    /\ forecastData[3].Temperature = 72
    /\ MinMax(dayMap[Format(9)]) = <<55, 70>>
    /\ MinMax(dayMap[Format(10)]) = <<72, 72>>

\* C8: the fallback fetch issues points, forecast, stations, observation in
\* that order, each at most once; a call that fails is the last call issued
\* and the fetch returns an error.
C8_ChainOrderAndAbort ==
    OnFallback =>
        /\ Len(requests) <= Len(Chain)
        /\ \A i \in 1..Len(requests) : requests[i].call = Chain[i]
        /\ \A i \in 1..Len(requests) :
              requests[i].outcome # "ok" =>
                  /\ i = Len(requests)
                  /\ pc = "error"
                  /\ retErr # NoError

\* The third call of the chain failed after two that succeeded.
C8_Witness ==
    /\ OnFallback
    /\ Len(requests) = 3
    /\ requests[3].outcome = "decode"
    /\ pc = "error"

\* C9: an empty station list ends the fetch with 'no observation stations
\* found', without an observation request and without weather data; an
\* observation request is for the first station of the list.
C9_StationList ==
    OnFallback =>
        /\ (/\ Len(requests) >= 3
            /\ requests[3].outcome = "ok"
            /\ stationsData = <<>>) =>
              /\ pc = "error"
              /\ retErr = [call |-> "stations",
                           kind |-> "no observation stations found"]
              /\ Len(requests) = 3
              /\ Daily = <<>> /\ Forecast = <<>>
        /\ \A i \in 1..Len(requests) :
              requests[i].call = "observation" =>
                  /\ stationsData # <<>>
                  /\ requests[i].station = Head(stationsData)

\* The station list came back empty and the fetch has returned its error.
C9_Witness ==
    /\ OnFallback
    /\ Len(requests) = 3
    /\ requests[3].outcome = "ok"
    /\ stationsData = <<>>
    /\ pc = "error"

\* The host is one of the two provider domains or a subdomain of one.
InAllowedDomain(host) ==
    \E domain \in {HostOpenWeatherMap, HostNWS} :
        host = domain \/ HasSuffix(host, <<".">> \o domain)

\* C10: validateURL returns an error for every URL whose scheme is not https
\* and for every URL whose host is outside the two provider domains.
C10_RejectsOutsiders ==
    (/\ pc = "validate"
     /\ verdict # "pending"
     /\ \/ URLParse(rawURL).Scheme # SchemeHTTPS
        \/ ~InAllowedDomain(rawURL.host)) => verdict # "nil"

----------------------------------------------------------------------------
\* C11: every HTTP request to a weather provider is preceded by a successful
\* validateURL call on that request's URL: the geocoding and onecall
\* requests of the primary path and all four requests of the fallback chain,
\* the forecast and station-list requests included.
C11_EveryRequestValidated ==
    \A i \in 1..Len(requests) : requests[i].validated

----------------------------------------------------------------------------
(* main and ProcessLocations.  main validates the configuration and calls  *)
(* ProcessLocations once, and once more per tick when an interval is set;  *)
(* ProcessLocations calls GetLocationWeather for each ZIP code in turn.    *)
(* ValidateConfig lets no configuration with an empty API key through, so  *)
(* getNWSWeather is not reached from main.                                 *)

InitMain ==
    /\ mainpc = "ValidateConfig"
    /\ pc = "idle"
    /\ inputs = "batches"
    /\ apiKey \in {"", "key", "key\n"}
    /\ zipCodes \in ZipLists
    /\ outputFormat \in Formats
    /\ kafkaBroker \in {"", "localhost:9092"}
    /\ interval \in {0, 60}
    /\ isMetric = FALSE
    /\ openAIKey = ""
    /\ zip = <<>>
    /\ NoFetch
    /\ coords = NoCoordinates
    /\ obsData = NoObservation
    /\ current = NoCurrent
    /\ weatherData = NoRecord
    /\ cfgErr = "pending"
    /\ zi = 1
    /\ weatherDataList = <<>>
    /\ acquired = <<>>
    /\ output = <<>>
    /\ ticks = 0
    /\ tickerC = 0
    /\ zipOK = "pending"

\* main: ValidateConfig; an error is fatal (log.Fatalf exits the process).
MainValidate ==
    /\ mainpc = "ValidateConfig"
    /\ cfgErr' = ValidateConfig(apiKey, zipCodes, outputFormat, kafkaBroker)
    /\ mainpc' = IF cfgErr' # "nil" THEN "fatal" ELSE "call"
    /\ UNCHANGED <<apiKey, pc, requests, forecastData, stationsData, pointsData,
                   idx,
                   dayMap, today, Daily, retErr, ForecastDays, Forecast,
                   urlVars, cfgVars, localVars, zi, weatherDataList, acquired,
                   output, ticks, tickerC,
                   zipOK>>

\* A ProcessLocations whose weatherDataList outlives the call.
StartProcessLocationsKeepsList ==
    /\ mainpc = "call"
    /\ mainpc' = "loop"
    /\ zi' = 1
    /\ UNCHANGED weatherDataList
    /\ acquired' = <<>>
    /\ output' = <<>>
    /\ requests' = <<>>
    /\ UNCHANGED <<apiKey, pc, forecastData, stationsData, pointsData,
                   idx, dayMap, today,
                   Daily, retErr, ForecastDays, Forecast, urlVars, cfgVars,
                   localVars, cfgErr, ticks, tickerC,
                   zipOK>>

\* main calls ProcessLocations, which starts with an empty weatherDataList.
\* requests, acquired and output are kept per call.
StartProcessLocations ==
    /\ mainpc = "call"
    /\ mainpc' = "loop"
    /\ zi' = 1
    /\ weatherDataList' = <<>>
    /\ acquired' = <<>>
    /\ output' = <<>>
    /\ requests' = <<>>
    /\ UNCHANGED <<apiKey, pc, forecastData, stationsData, pointsData,
                   idx, dayMap, today,
                   Daily, retErr, ForecastDays, Forecast, urlVars, cfgVars,
                   localVars, cfgErr, ticks, tickerC,
                   zipOK>>

\* ProcessLocations: the next iteration calls GetLocationWeather(zip, config).
StartLocation ==
    /\ mainpc = "loop"
    /\ pc = "idle"
    /\ zi <= Len(zipCodes)
    /\ zip' = zipCodes[zi]
    /\ pc' = "coordinates"
    /\ forecastData' = <<>>
    /\ stationsData' = <<>>
    /\ pointsData' = NoPoints
    /\ idx' = 1
    /\ dayMap' = NoDays
    /\ today' = <<>>
    /\ Daily' = <<>>
    /\ retErr' = NoError
    /\ ForecastDays' = 0
    /\ Forecast' = <<>>
    /\ coords' = NoCoordinates
    /\ obsData' = NoObservation
    /\ current' = NoCurrent
    /\ weatherData' = NoRecord
    /\ UNCHANGED <<apiKey, requests, urlVars, cfgVars, mainVars, zipOK>>

\* The record GetLocationWeather returned, with its forecast.
Returned ==
    [data |-> weatherData, ForecastDays |-> ForecastDays,
     Forecast |-> Forecast]

\* ProcessLocations putting the newest record first.
EndLocationPrepends ==
    /\ mainpc = "loop"
    /\ pc \in {"done", "error"}
    /\ acquired' = Append(acquired, retErr = NoError)
    /\ IF retErr # NoError
       THEN UNCHANGED <<weatherDataList, output>>
       ELSE /\ weatherDataList' = <<Returned>> \o weatherDataList
            /\ output' = IF outputFormat \notin {FormatJSON, FormatCSV}
                         THEN <<weatherData.LocationID>> \o output
                         ELSE output
    /\ zi' = zi + 1
    /\ pc' = "idle"
    /\ UNCHANGED <<apiKey, requests, forecastData, stationsData, pointsData,
                   idx, dayMap,
                   today, Daily, retErr, ForecastDays, Forecast, urlVars,
                   cfgVars, localVars, mainpc, cfgErr, ticks, tickerC,
                   zipOK>>

\* ProcessLocations: GetLocationWeather has returned.  An error is logged and
\* the loop continues; a record is appended, and output at once unless the
\* format is one of the batch formats.
EndLocation ==
    /\ mainpc = "loop"
    /\ pc \in {"done", "error"}
    /\ acquired' = Append(acquired, retErr = NoError)
    /\ IF retErr # NoError
       THEN UNCHANGED <<weatherDataList, output>>
       ELSE /\ weatherDataList' = Append(weatherDataList, Returned)
            /\ output' = IF outputFormat \notin {FormatJSON, FormatCSV}
                         THEN Append(output, weatherData.LocationID)
                         ELSE output
    /\ zi' = zi + 1
    /\ pc' = "idle"
    /\ UNCHANGED <<apiKey, requests, forecastData, stationsData, pointsData,
                   idx, dayMap,
                   today, Daily, retErr, ForecastDays, Forecast, urlVars,
                   cfgVars, localVars, mainpc, cfgErr, ticks, tickerC,
                   zipOK>>

\* ProcessLocations after the loop: the batch formats output the whole list,
\* if it is not empty; then main waits for a tick or returns.
EndProcessLocations ==
    /\ mainpc = "loop"
    /\ pc = "idle"
    /\ zi > Len(zipCodes)
    /\ output' = IF /\ Len(weatherDataList) > 0
                    /\ outputFormat \in {FormatJSON, FormatCSV}
                 THEN [i \in 1..Len(weatherDataList) |->
                          weatherDataList[i].data.LocationID]
                 ELSE output
    /\ mainpc' = IF interval > 0 THEN "ticker" ELSE "exit"
    /\ UNCHANGED <<apiKey, pc, requests, forecastData, stationsData, pointsData,
                   idx,
                   dayMap, today, Daily, retErr, ForecastDays, Forecast,
                   urlVars, cfgVars, localVars, cfgErr, zi, weatherDataList,
                   acquired, ticks, tickerC,
                   zipOK>>

\* The ticker fires while main runs with an interval: the tick is put into
\* ticker.C, or dropped when one is waiting there already.
TickerFires ==
    /\ interval > 0
    /\ mainpc \in {"call", "loop", "ticker"}
    /\ pc # "panic"
    /\ ticks < MaxTicks
    /\ tickerC = 0
    /\ tickerC' = 1
    /\ UNCHANGED <<apiKey, pc, requests, forecastData, stationsData, pointsData,
                   idx,
                   dayMap, today, Daily, retErr, ForecastDays, Forecast,
                   urlVars, cfgVars, localVars, mainpc, cfgErr, zi,
                   weatherDataList, acquired, output, ticks, zipOK>>

\* main: "for range ticker.C" receives a tick and calls ProcessLocations.
Tick ==
    /\ mainpc = "ticker"
    /\ tickerC > 0
    /\ tickerC' = tickerC - 1
    /\ ticks' = ticks + 1
    /\ mainpc' = "call"
    /\ UNCHANGED <<apiKey, pc, requests, forecastData, stationsData, pointsData,
                   idx,
                   dayMap, today, Daily, retErr, ForecastDays, Forecast,
                   urlVars, cfgVars, localVars, cfgErr, zi, weatherDataList,
                   acquired, output, zipOK>>

NextMain ==
    \/ MainValidate
    \/ StartProcessLocations
    \/ StartLocation
    \/ GetCoordinates
    \/ CallOneCall
    \/ ProcessForecast
    \/ Summarize
    \/ EndLocation
    \/ EndProcessLocations
    \/ TickerFires
    \/ Tick

SpecMain == InitMain /\ [][NextMain]_vars

\* A string of exactly five characters, each an ASCII digit.
FiveDigits(z) == Len(z) = 5 /\ \A i \in 1..Len(z) : z[i] \in Digits

\* main has called ValidateConfig.
Validated == mainpc # "none" /\ cfgErr # "pending"

\* C12: ValidateConfig returns no error for a configuration with an empty API
\* key, at least one ZIP code, all of them valid, and a valid output format,
\* so that the run goes on to the fallback path.
C12_EmptyKeyAccepted ==
    (/\ Validated
     /\ apiKey = ""
     /\ Len(zipCodes) >= 1
     /\ \A i \in 1..Len(zipCodes) : FiveDigits(zipCodes[i])
     /\ outputFormat \in {FormatJSON, FormatCSV, FormatText, FormatKafka}
     /\ kafkaBroker # "") => (cfgErr = "nil" /\ mainpc # "fatal")

\* C13: ValidateConfig returns an error whenever the ZIP code list is empty
\* or holds an invalid entry at any position, and returns no error for a
\* configuration with an API key, only valid ZIP codes and the text format.
C13_ZipListChecked ==
    Validated =>
        /\ (\/ Len(zipCodes) = 0
            \/ \E i \in 1..Len(zipCodes) : ~FiveDigits(zipCodes[i]))
               => cfgErr # "nil"
        /\ (/\ apiKey # ""
            /\ Len(zipCodes) >= 1
            /\ \A i \in 1..Len(zipCodes) : FiveDigits(zipCodes[i])
            /\ outputFormat = FormatText) => cfgErr = "nil"

\* With an API key, a list whose second entry alone is invalid was rejected.
C13_Witness ==
    /\ Validated
    /\ apiKey # ""
    /\ Len(zipCodes) = 2
    /\ FiveDigits(zipCodes[1])
    /\ ~FiveDigits(zipCodes[2])
    /\ outputFormat = FormatText
    /\ cfgErr = "invalid ZIP code format"

\* The call of ProcessLocations is over: it has returned, or the process has
\* died in it.
RunOver ==
    \/ mainpc \in {"ticker", "exit"}
    \/ mainpc = "loop" /\ pc = "panic"

\* The ZIP codes of the list for which GetLocationWeather returned no error,
\* in the order of the list.
Succeeded ==
    LET Ok(i) == acquired[i]
        kept == SelectSeq([i \in 1..Len(zipCodes) |-> i], Ok)
    IN [j \in 1..Len(kept) |-> zipCodes[kept[j]]]

\* C16: in ProcessLocations a ZIP code whose acquisition returns an error
\* produces no output record and every remaining ZIP code is still processed:
\* the records output are exactly those of the ZIP codes whose acquisition
\* succeeded.
C16_FailuresSkipped ==
    RunOver =>
        /\ Len(acquired) = Len(zipCodes)
        /\ output = Succeeded

\* C17: only a configuration-validation failure terminates the process, and
\* it does so before any network activity: after an error of ValidateConfig
\* main exits without calling ProcessLocations, and once ProcessLocations has
\* started nothing that happens for a ZIP code terminates the process.
C17_OnlyValidationIsFatal ==
    /\ (Validated /\ cfgErr # "nil") =>
          /\ mainpc = "fatal"
          /\ requests = <<>>
          /\ acquired = <<>> /\ output = <<>> /\ pc = "idle"
    /\ mainpc \in {"call", "loop", "ticker", "exit"} =>
          /\ cfgErr = "nil"
          /\ pc # "panic"

----------------------------------------------------------------------------
(* isValidZip applied to each string of ZipStrings.                        *)

InitZip ==
    /\ pc = "isValidZip"
    /\ zip \in ZipStrings
    /\ apiKey = ""
    /\ inputs = "zips"
    /\ zipCodes = <<>>
    /\ outputFormat = FormatJSON
    /\ isMetric = FALSE
    /\ kafkaBroker = ""
    /\ interval = 0
    /\ openAIKey = ""
    /\ NoFetch
    /\ Idle

CheckZip ==
    /\ pc = "isValidZip"
    /\ zipOK = "pending"
    /\ zipOK' = IF isValidZip(zip) THEN "true" ELSE "false"
    /\ UNCHANGED <<apiKey, pc, requests, forecastData, stationsData, pointsData,
                   idx,
                   dayMap, today, Daily, retErr, ForecastDays, Forecast,
                   urlVars, cfgVars, localVars, mainVars>>

NextZip == CheckZip

SpecZip == InitZip /\ [][NextZip]_vars

\* C14: isValidZip(s) returns true if and only if s is exactly 5 characters
\* long and each of them is an ASCII digit.
C14_FiveDigits ==
    (pc = "isValidZip" /\ zipOK # "pending") =>
        (zipOK = "true" <=> FiveDigits(zip))

\* A string of five digits has been accepted.
C14_Witness ==
    /\ pc = "isValidZip"
    /\ zip = <<"9", "0", "9", "0", "0">>
    /\ zipOK = "true"

----------------------------------------------------------------------------
(* GetLocationWeather called with each ZIP code of ZipSamples, with and    *)
(* without the metric flag, for the text and the JSON format, with and     *)
(* without OPENAI_API_KEY.                                                 *)

InitRecord ==
    /\ pc = "coordinates"
    /\ inputs = "records"
    /\ apiKey \in {"", "key", "key\n", "k#%", "k#\n"}
    /\ zip \in ZipSamples
    /\ isMetric \in BOOLEAN
    /\ outputFormat \in {FormatText, FormatJSON}
    /\ openAIKey \in {"", "sk-key"}
    /\ zipCodes = <<>>
    /\ kafkaBroker = ""
    /\ interval = 0
    /\ NoFetch
    /\ Idle

NextRecord ==
    \/ Next
    \/ Summarize

SpecRecord == InitRecord /\ [][NextRecord]_vars

\* getCoordinates has returned to a GetLocationWeather called without a key.
Resolved == OnFallback /\ mainpc = "none" /\ inputs = "records"
            /\ pc # "coordinates"

\* C15: without a credential, coordinate resolution never returns an error
\* and depends on the ZIP code alone: a ZIP code of the fixed table resolves
\* to its entry and any other ZIP code to the one default location, and no
\* network call is made for it.
C15_TableOrDefault ==
    Resolved =>
        /\ retErr.call # "coordinates"
        /\ zip \in DOMAIN zipCoords => coords = zipCoords[zip]
        /\ zip \notin DOMAIN zipCoords =>
               coords = Coordinates(407128, -740060, "New York")
        /\ \A i \in 1..Len(requests) : requests[i].call # "geocode"
        /\ pc = "points" => requests = <<>>

\* A ZIP code outside the table has been resolved to the default location,
\* with no request issued.
C15_Witness ==
    /\ Resolved
    /\ pc = "points"
    /\ zip = <<"1", "2", "3", "4", "5">>
    /\ coords = Coordinates(407128, -740060, "New York")
    /\ requests = <<>>

\* getNWSWeather has decoded the latest observation and converted it.
Observed ==
    /\ OnFallback
    /\ inputs = "records"
    /\ pc \in {"periods", "process", "summary", "done", "panic"}

\* C18: summarization never aborts acquisition or output: without
\* OPENAI_API_KEY summarizeForecast returns the fixed missing-credential
\* message, a failing completion call gives a placeholder text, and in every
\* case GetLocationWeather returns the record without error for a successful
\* fetch.
C18_SummaryNeverAborts ==
    (inputs = "records" /\ pc \in {"process", "summary", "done", "panic"}) =>
        /\ pc # "panic"
        /\ retErr = NoError
        /\ (pc = "done" /\ outputFormat = FormatText) =>
              /\ weatherData.LocationID = zip
              /\ weatherData.Summary # ""
              /\ openAIKey = "" => weatherData.Summary = MissingKeyMessage

\* C19: on the fallback path the current temperature of the snapshot is
\* c*9/5+32 for the Celsius value c of the latest observation (0 gives 32,
\* 100 gives 212, 37 gives 98.6), and the record carries that value.
C19_CurrentTemperature ==
    Observed =>
        /\ current.Temp * 5 = (obsData.Temperature * 10) * 9 + 3200 * 5
        /\ obsData.Temperature = 0 => current.Temp = 3200
        /\ obsData.Temperature = 1000 => current.Temp = 21200
        /\ obsData.Temperature = 370 => current.Temp = 9860
        /\ pc \in {"summary", "done"} =>
               weatherData.Temperature = current.Temp

\* An observation of 21.7 degrees Celsius has been returned as 71.06.
C19_Witness ==
    /\ Observed
    /\ pc = "done"
    /\ obsData.Temperature = 217
    /\ weatherData.Temperature = 7106

\* C20: the current conditions of the record are in the unit system the
\* caller requested, metric with the metric flag and imperial without it, on
\* both paths, so that IsMetric matches the units of the values.
C20_RequestedUnits ==
    (inputs = "records" /\ pc = "done") =>
        /\ weatherData.units = IF isMetric THEN "metric" ELSE "imperial"
        /\ weatherData.IsMetric <=> weatherData.units = "metric"

----------------------------------------------------------------------------
\* The ZIP codes handled so far in this call of ProcessLocations for which
\* GetLocationWeather returned no error, in the order of the list.
SucceededSoFar ==
    LET Ok(i) == acquired[i]
        kept == SelectSeq([i \in 1..Len(acquired) |-> i], Ok)
    IN [j \in 1..Len(kept) |-> zipCodes[kept[j]]]

\* C21: processing is strictly sequential per ZIP code: every step for the
\* i-th ZIP code (a request, the end of its call) happens when the calls for
\* all earlier ZIP codes have returned and before the call for the next one
\* starts, and the records are output in the order of the ZIP code list.
C21_Sequential ==
    [][/\ Len(requests') > Len(requests) =>
              /\ mainpc = "loop"
              /\ zi <= Len(zipCodes) /\ zip = zipCodes[zi]
              /\ Len(acquired) = zi - 1
       /\ (mainpc = "loop" /\ zi' # zi) =>
              /\ mainpc' = "loop" /\ zi' = zi + 1
              /\ pc \in {"done", "error"} /\ pc' = "idle"
              /\ zip = zipCodes[zi]
       /\ (mainpc = "loop" /\ pc = "idle" /\ pc' # "idle") =>
              /\ pc' = "coordinates"
              /\ zip' = zipCodes[zi] /\ Len(acquired) = zi - 1
       /\ mainpc' \in {"loop", "ticker", "exit"} =>
              /\ Len(acquired') <= Len(zipCodes)
              /\ output' \in {<<>>, SucceededSoFar'}
              /\ (mainpc' # "loop" \/ outputFormat \notin {FormatJSON, FormatCSV})
                    => output' = SucceededSoFar'
      ]_vars

\* Two different ZIP codes have been acquired with two requests each and
\* output in the order of the list.
C21_Witness ==
    /\ mainpc = "exit"
    /\ Len(zipCodes) = 2
    /\ zipCodes[1] # zipCodes[2]
    /\ Len(requests) = 4
    /\ output = zipCodes

----------------------------------------------------------------------------
\* C22: for a date that already has a bucket, a nighttime period leaves the
\* bucket's tempMax and condition text unchanged and a daytime period leaves
\* its tempMin unchanged; any period leaves the buckets of all other dates
\* unchanged.
C22_FrameOfPeriod ==
    [][(pc = "periods" /\ idx' = idx + 1) =>
          LET period == forecastData[idx]
          IN /\ \A k \in DOMAIN dayMap :
                   /\ k \in DOMAIN dayMap'
                   /\ (~HasDate(period) \/ k # Format(DateOf(period))) =>
                          dayMap'[k] = dayMap[k]
                   /\ (HasDate(period) /\ k = Format(DateOf(period))) =>
                          /\ ~period.IsDaytime =>
                                 /\ dayMap'[k].maxTemp = dayMap[k].maxTemp
                                 /\ dayMap'[k].description = dayMap[k].description
                          /\ period.IsDaytime =>
                                 dayMap'[k].minTemp = dayMap[k].minTemp
             /\ \A k \in DOMAIN dayMap' \ DOMAIN dayMap :
                   HasDate(period) /\ k = Format(DateOf(period))
      ]_vars

\* A nighttime period colder than the bucket of its date has lowered the min
\* of that bucket, next to a bucket of another date.
C22_Witness ==
    /\ pc = "periods"
    /\ idx = 4
    /\ HasDate(forecastData[1]) /\ HasDate(forecastData[2])
    /\ HasDate(forecastData[3])
    /\ DateOf(forecastData[1]) # DateOf(forecastData[2])
    /\ DateOf(forecastData[3]) = DateOf(forecastData[2])
    /\ ~forecastData[3].IsDaytime
    /\ forecastData[3].Temperature < forecastData[2].Temperature
    /\ dayMap[Format(DateOf(forecastData[3]))].minTemp
          = forecastData[3].Temperature
    /\ dayMap[Format(DateOf(forecastData[3]))].description = 2

----------------------------------------------------------------------------
\* The text a date's bucket must carry after the periods ps of that date: the
\* seeding period's if the max is still the seeding temperature, otherwise
\* that of the earliest daytime period with the final max, which is the
\* period that raised the max last.
ConditionOf(ps, finalMax) ==
    IF finalMax = ps[1].Temperature THEN ps[1].ShortForecast
    ELSE LET setters == {i \in 2..Len(ps) :
                            ps[i].IsDaytime /\ ps[i].Temperature = finalMax}
         IN ps[CHOOSE i \in setters : \A j \in setters : i <= j].ShortForecast

\* Every bucket carries the text ConditionOf gives for the periods processed.
ConditionsAreOfMaxSetters ==
    (OnFallback /\ pc = "periods") =>
        \A d \in DatesOf(Processed) :
            dayMap[Format(d)].description =
                ConditionOf(PeriodsOn(Processed, d), dayMap[Format(d)].maxTemp)

\* C23: the condition text of a date changes only when a daytime period
\* strictly exceeds the running max, so that a tie between two daytime
\* periods keeps the earlier text, and the condition of a date is always the
\* text of the period that set its max most recently, or of the seeding
\* period if the max was never raised.
C23_ConditionFollowsMax ==
    [][/\ (pc = "periods" /\ idx' = idx + 1) =>
              \A k \in DOMAIN dayMap :
                  dayMap'[k].description # dayMap[k].description =>
                      /\ forecastData[idx].IsDaytime
                      /\ forecastData[idx].Temperature > dayMap[k].maxTemp
                      /\ dayMap'[k].description = forecastData[idx].ShortForecast
       /\ ConditionsAreOfMaxSetters'
      ]_vars

\* After a nighttime seed, a daytime period raised the max and a second
\* daytime period of the same temperature left the first one's text.
C23_Witness ==
    /\ OnFallback
    /\ pc = "periods"
    /\ idx = 4
    /\ \A i \in 1..3 : HasDate(forecastData[i])
                      /\ DateOf(forecastData[i]) = DateOf(forecastData[1])
    /\ ~forecastData[1].IsDaytime
    /\ forecastData[2].IsDaytime /\ forecastData[3].IsDaytime
    /\ forecastData[2].Temperature > forecastData[1].Temperature
    /\ forecastData[3].Temperature = forecastData[2].Temperature
    /\ dayMap[Format(DateOf(forecastData[1]))].description = 2

----------------------------------------------------------------------------
\* C24: on the fallback path the feels-like value of the snapshot is the
\* Fahrenheit conversion of the observation's heat index when the heat index
\* is present and not zero, and otherwise equals the current temperature of
\* the snapshot.
C24_FeelsLike ==
    Observed =>
        /\ obsData.HeatIndex # 0 =>
               current.FeelsLike * 5 = (obsData.HeatIndex * 10) * 9 + 3200 * 5
        /\ obsData.HeatIndex = 0 => current.FeelsLike = current.Temp
        /\ pc \in {"summary", "done"} =>
               weatherData.FeelsLike = current.FeelsLike

\* An observation of 37 degrees with a heat index of 35 has been returned
\* with a temperature of 98.6 and a feels-like value of 95.
C24_Witness ==
    /\ Observed
    /\ pc = "done"
    /\ obsData.Temperature = 370
    /\ obsData.HeatIndex = 350
    /\ weatherData.Temperature = 9860
    /\ weatherData.FeelsLike = 9500

----------------------------------------------------------------------------
\* C25: with a positive interval main runs the batch once immediately and
\* then once for each tick it receives, without end; a tick that fires
\* during a run starts no run, so that at most one run is in flight; and
\* each run starts with an empty result list.
C25_OneRunPerTick ==
    [][/\ (mainpc # "call" /\ mainpc' = "call") =>
              \/ /\ mainpc = "ValidateConfig"
                 /\ ticks' = 0 /\ tickerC' = tickerC
              \/ /\ mainpc = "ticker" /\ interval > 0
                 /\ tickerC > 0 /\ tickerC' = tickerC - 1
                 /\ ticks' = ticks + 1
       /\ (mainpc = "call" /\ mainpc' # "call") =>
              /\ mainpc' = "loop"
              /\ weatherDataList' = <<>>
              /\ zi' = 1
       /\ (mainpc = "loop" /\ mainpc' # "loop") =>
              /\ pc = "idle" /\ zi > Len(zipCodes)
              /\ mainpc' = IF interval > 0 THEN "ticker" ELSE "exit"
       /\ tickerC' > tickerC =>
              UNCHANGED <<mainpc, pc, zi, weatherDataList, requests, ticks>>
       /\ interval > 0 => mainpc' # "exit"
       /\ Len(weatherDataList') <= Len(zipCodes)
      ]_vars

\* The run started by the first tick has ended with a record for each of
\* the two ZIP codes, as the run before it did.
C25_Witness ==
    /\ interval > 0
    /\ ticks = 1
    /\ mainpc = "ticker"
    /\ Len(zipCodes) = 2
    /\ Len(weatherDataList) = 2

----------------------------------------------------------------------------
\* getWeather has returned without error to GetLocationWeather.
Fetched == mainpc = "none" /\ pc \in {"process", "summary", "done", "panic"}

\* C26: GetLocationWeather returns a well-formed record for every successful
\* fetch, also when Daily is empty or has one entry: ForecastDays is never
\* negative, Forecast has exactly ForecastDays entries, and the call does not
\* crash.
C26_RecordForEveryFetch ==
    Fetched =>
        /\ pc # "panic"
        /\ Min(Len(Daily), 7) - 1 >= 0
        /\ pc \in {"summary", "done"} =>
               /\ ForecastDays >= 0
               /\ Len(Forecast) = ForecastDays

\* C27: the Daily entry GetLocationWeather leaves out of the forecast, the
\* one at index 0, is always today's entry: on the fallback path, when the
\* periods do not contain today's date, no date of the periods is missing
\* from the forecast of the record.
C27_OnlyTodayOmitted ==
    (OnFallback /\ mainpc = "none" /\ pc = "done") =>
        /\ Format(Daily[1].Dt) = today
        /\ (today \notin DOMAIN dayMap /\ Len(Daily) <= 7) =>
               \A k \in DOMAIN dayMap :
                   \E i \in 1..Len(Forecast) : Format(Forecast[i].Date) = k

====
